---- MODULE Spec2Model ----
(***************************************************************************)
(* ESL home hub (src/app.py): the job wrapper run_job with its process-wide *)
(* stdout/stderr tee, the run log (load_logs / log_run), the configuration  *)
(* store (load_config / save_config), the planner reschedule_all and the    *)
(* background scheduler that fires the planned jobs.                        *)
(*                                                                         *)
(* Threads interleave at statement granularity: one action is one access  *)
(* of one thread to shared state (a file, sys.stdout and sys.stderr, the   *)
(* job store) together with the statements around it that touch only       *)
(* locals.  A file is read or written as a whole in one step; sys.stdout   *)
(* and sys.stderr are read, or assigned, together.                         *)
(***************************************************************************)
EXTENDS Integers, Sequences, FiniteSets, TLC

(***************************************************************************)
(* Bounds of the model.                                                    *)
(***************************************************************************)
\* worker threads that can each carry one run_job call
NThreads == 2
\* lines an adapter prints before it returns or raises
MaxPrints == 1
\* ticks of the wall clock (minute resolution of the log timestamp)
MaxClock == 1
\* update_settings requests
MaxSaves == 1
\* log_run calls made one after another
MaxAppends == 11
\* log_run calls made between the requests for the index page
MaxReadAppends == 2
\* /trigger requests
MaxRequests == 2

Threads == 1..NThreads

(***************************************************************************)
(* Text.  A string the code takes apart (an "HH:MM" time) is a sequence of *)
(* one-character strings; text that is only copied is a TLA+ string.       *)
(***************************************************************************)
T0800 == <<"0", "8", ":", "0", "0">>
T1000 == <<"1", "0", ":", "0", "0">>
T1400 == <<"1", "4", ":", "0", "0">>
T2200 == <<"2", "2", ":", "0", "0">>

\* job_map / jobs: the feeds that have a controller
Feeds == {"dota", "weather", "fitness", "energy"}

\* the iteration order of job_map (a dict keeps insertion order)
FeedOrder == <<"dota", "weather", "fitness", "energy">>

(***************************************************************************)
(* Configuration store.  configFile.state is "missing" (no file), "ok"     *)
(* (a JSON document, configFile.data) or "corrupt" (not parseable).        *)
(***************************************************************************)
defaults ==
    [dota    |-> [enabled |-> FALSE, mode |-> "interval", interval |-> 15,
                  times |-> <<T0800>>, days |-> 1],
     weather |-> [enabled |-> FALSE, mode |-> "interval", interval |-> 30,
                  times |-> <<T1000, T1400>>, days |-> 1],
     fitness |-> [enabled |-> FALSE, mode |-> "interval", interval |-> 60,
                  times |-> <<T2200>>, days |-> 1],
     energy  |-> [enabled |-> FALSE, mode |-> "interval", interval |-> 60,
                  times |-> <<T0800>>, days |-> 3],
     system  |-> [gateway_ip |-> "192.168.220.206", store_code |-> ""]]

\* mutant of FillSection: the section is rebuilt from the default fields,
\* and a stored field the defaults do not have is dropped
FillSectionKnownOnly(def, stored) ==
    [k \in DOMAIN def |-> IF k \in DOMAIN stored THEN stored[k] ELSE def[k]]

\* lines 37-38: every default field the stored section lacks is added
FillSection(def, stored) ==
    [k \in DOMAIN def \cup DOMAIN stored |->
        IF k \in DOMAIN stored THEN stored[k] ELSE def[k]]

\* lines 34-39: the merge of the parsed document with the defaults
MergeDefaults(data) ==
    [key \in DOMAIN defaults \cup DOMAIN data |->
        IF key \notin DOMAIN data THEN defaults[key]
        ELSE IF key \in DOMAIN defaults THEN FillSection(defaults[key], data[key])
        ELSE data[key]]

\* load_config raises (json.load) exactly when the file exists and is no JSON
load_config_raises(file) == file.state \notin {"missing", "ok"}

\* load_config's return value when it does not raise
load_config(file) ==
    IF file.state = "missing" THEN defaults ELSE MergeDefaults(file.data)

(***************************************************************************)
(* Run log.  A stored entry is a record; a bare string s of an old log is  *)
(* [legacy |-> TRUE, time |-> s] with empty status and output.  A          *)
(* timestamp (the text strftime gives, to the minute) is the number of the *)
(* clock tick it names.                                                    *)
(***************************************************************************)
EmptyLogs == [f \in Feeds |-> <<>>]

LegacyEntry(s) == [legacy |-> TRUE, time |-> s, status |-> "", output |-> <<>>]

\* mutant of Migrate: a bare string is returned as it is stored
MigrateNothing(entry) == entry

\* line 54: the migration of one entry on read
Migrate(entry) ==
    IF entry.legacy
    THEN [legacy |-> FALSE, time |-> entry.time, status |-> "Legacy",
          output |-> <<"No details available.">>]
    ELSE entry

\* load_logs (lines 44-57): the value read_all returns
load_logs(file) ==
    IF file.state = "missing" THEN EmptyLogs
    ELSE IF file.state = "ok"
         THEN [k \in DOMAIN file.data |->
                  [i \in 1..Len(file.data[k]) |-> Migrate(file.data[k][i])]]
         ELSE EmptyLogs

\* line 72: logs[job_name][:10]
LogLimit == 10

Truncate(seq) == IF Len(seq) <= LogLimit THEN seq ELSE SubSeq(seq, 1, LogLimit)

\* mutant of InsertFront: the entry is appended at the end
InsertBack(seq, entry) == Append(seq, entry)

\* line 71: logs[job_name].insert(0, entry)
InsertFront(seq, entry) == <<entry>> \o seq

\* lines 61-72 of log_run: the document written back, from the loaded one
LogUpdate(logs, job_name, entry) ==
    [k \in DOMAIN logs \cup {job_name} |->
        IF k = job_name
        THEN Truncate(InsertFront(IF k \in DOMAIN logs THEN logs[k] ELSE <<>>, entry))
        ELSE logs[k]]

\* lines 63-69: the entry of one run; the timestamp is the clock to the minute
NewEntry(now, status, output) ==
    [legacy |-> FALSE, time |-> now, status |-> status, output |-> output]

(***************************************************************************)
(* Planning (reschedule_all, lines 135-167).  Time is counted in minutes;  *)
(* a datetime is day * 1440 + hour * 60 + minute.                          *)
(***************************************************************************)
MinutesPerDay == 24 * 60

Digits == <<"0", "1", "2", "3", "4", "5", "6", "7", "8", "9">>
IsDigit(c) == \E i \in 1..10 : Digits[i] = c
DigitValue(c) == (CHOOSE i \in 1..10 : Digits[i] = c) - 1

\* t_str.split(':'): the parts between the colons
RECURSIVE Split(_, _)
Split(str, cur) ==
    IF str = <<>> THEN <<cur>>
    ELSE IF Head(str) = ":" THEN <<cur>> \o Split(Tail(str), <<>>)
    ELSE Split(Tail(str), Append(cur, Head(str)))

\* int(part) raises on an empty part and on any character that is no digit
IsInt(part) == part # <<>> /\ \A i \in 1..Len(part) : IsDigit(part[i])

RECURSIVE IntOf(_, _)
IntOf(part, acc) ==
    IF part = <<>> THEN acc
    ELSE IntOf(Tail(part), 10 * acc + DigitValue(Head(part)))

\* lines 154-156 succeed: two integer parts, an hour and a minute of the day
WellFormed(t_str) ==
    LET parts == Split(t_str, <<>>)
    IN /\ Len(parts) = 2
       /\ IsInt(parts[1]) /\ IsInt(parts[2])
       /\ IntOf(parts[1], 0) \in 0..23
       /\ IntOf(parts[2], 0) \in 0..59

\* mutant of Target: lines 157-158 are missing, the time is taken today
TargetToday(t_str, now) ==
    LET parts == Split(t_str, <<>>)
        today == (now \div MinutesPerDay) * MinutesPerDay
    IN today + IntOf(parts[1], 0) * 60 + IntOf(parts[2], 0)

\* lines 154-158: the next occurrence of the wall-clock time after now
Target(t_str, now) ==
    LET parts == Split(t_str, <<>>)
        today == (now \div MinutesPerDay) * MinutesPerDay
        target == today + IntOf(parts[1], 0) * 60 + IntOf(parts[2], 0)
    IN IF target <= now THEN target + MinutesPerDay ELSE target

\* a job identifier f"{name}_{suffix}"
IntervalSuffix == <<"interval">>
JobId(name, suffix) == <<name, suffix>>

\* lines 141-144: the interval job of a feed; an interval trigger without
\* start_date first runs one period after its creation
IntervalJob(name, settings, now, by) ==
    [id |-> JobId(name, IntervalSuffix), name |-> name,
     period |-> settings.interval, first |-> now + settings.interval, by |-> by]

\* lines 160-163: the job of one time of day
TimeJob(name, settings, t_str, now, by) ==
    [id |-> JobId(name, t_str), name |-> name,
     period |-> settings.days * MinutesPerDay, first |-> Target(t_str, now), by |-> by]

\* line 139
IsIntervalMode(settings) == "mode" \in DOMAIN settings /\ settings.mode = "interval"

\* scheduler.add_job on the running scheduler refuses an id the store holds
Conflicts(store, job) == \E j \in store : j.id = job.id

\* mutant of TimeRaises: there is no try around lines 154-164, and what a
\* malformed time raises leaves reschedule_all
TimeRaisesWhenMalformed(t_str) == ~WellFormed(t_str)

\* lines 153 and 166: what lines 154-164 raise for a time string (the unpack
\* of the split, int, replace, add_job) is an Exception and is caught
TimeRaises(t_str) == FALSE

\* mutant of AddTimeJob: a time of day that has passed today gets no job
AddTimeJobSkipPast(store, name, settings, t_str, now, by) ==
    IF /\ WellFormed(t_str)
       /\ ~Conflicts(store, TimeJob(name, settings, t_str, now, by))
       /\ Target(t_str, now) \div MinutesPerDay = now \div MinutesPerDay
    THEN store \cup {TimeJob(name, settings, t_str, now, by)}
    ELSE store

\* lines 152-167 for one time string: the store after it (a malformed time,
\* or an id the store holds already, is caught by the except and skipped)
AddTimeJob(store, name, settings, t_str, now, by) ==
    IF WellFormed(t_str) /\ ~Conflicts(store, TimeJob(name, settings, t_str, now, by))
    THEN store \cup {TimeJob(name, settings, t_str, now, by)}
    ELSE store

\* lines 152-167: the loop over the feed's times
RECURSIVE AddTimeJobs(_, _, _, _, _, _)
AddTimeJobs(store, name, settings, times, now, by) ==
    IF times = <<>> THEN store
    ELSE AddTimeJobs(AddTimeJob(store, name, settings, Head(times), now, by),
                     name, settings, Tail(times), now, by)

\* mutant of PlanFeed: the else of line 148 is missing, the times of day of
\* a feed in interval mode are planned as well
PlanFeedAlsoTimes(store, c, name, now, by) ==
    IF IsIntervalMode(c[name])
    THEN AddTimeJobs(store \cup {IntervalJob(name, c[name], now, by)},
                     name, c[name], c[name].times, now, by)
    ELSE AddTimeJobs(store, name, c[name], c[name].times, now, by)

\* mutant of PlanFeed: a feed whose enabled flag is not true is not planned
PlanFeedIfEnabled(store, c, name, now, by) ==
    IF "enabled" \in DOMAIN c[name] /\ c[name].enabled = TRUE
    THEN IF IsIntervalMode(c[name])
         THEN store \cup {IntervalJob(name, c[name], now, by)}
         ELSE AddTimeJobs(store, name, c[name], c[name].times, now, by)
    ELSE store

\* lines 136-167 for one feed, when no add_job raises out of reschedule_all
PlanFeed(store, c, name, now, by) ==
    IF IsIntervalMode(c[name])
    THEN store \cup {IntervalJob(name, c[name], now, by)}
    ELSE AddTimeJobs(store, name, c[name], c[name].times, now, by)

\* lines 135-167: the loop over job_map
RECURSIVE PlanFeeds(_, _, _, _, _)
PlanFeeds(store, c, names, now, by) ==
    IF names = <<>> THEN store
    ELSE PlanFeeds(PlanFeed(store, c, Head(names), now, by), c, Tail(names), now, by)

\* the job store reschedule_all leaves when it runs alone at the instant now
plan(c, now) == PlanFeeds({}, c, FeedOrder, now, 0)

\* reschedule_all, run alone on an empty store, ends by an error
PlanRaises(c) ==
    \E name \in Feeds :
        /\ ~IsIntervalMode(c[name])
        /\ \E i \in 1..Len(c[name].times) : TimeRaises(c[name].times[i])

\* mutant of RemoveAllJobs: only the interval jobs are removed
RemoveIntervalJobs(store) == {j \in store : j.id[2] # IntervalSuffix}

\* scheduler.remove_all_jobs() (line 124)
RemoveAllJobs(store) == {}

(***************************************************************************)
(* Output capture.  A stream is the terminal with a stack of Tee objects   *)
(* on it; it is written as the sequence of the threads whose               *)
(* capture_buffer a write to the stream reaches (<<>> is the terminal).    *)
(***************************************************************************)
Terminal == <<>>

\* Tee(stream, capture_buffer) of thread t (lines 88-93, 100-101)
Tee(stream, t) == Append(stream, t)

\* Tee.write: the text reaches every buffer of the stream
RECURSIVE TeeWrite(_, _, _)
TeeWrite(bufs, stream, text) ==
    IF stream = <<>> THEN bufs
    ELSE TeeWrite([bufs EXCEPT ![Head(stream)] = Append(@, text)], Tail(stream), text)

\* line 103
HeaderLine(force, name) == <<"Job", IF force THEN "Manual" ELSE "Scheduled", name>>
\* a progress line of the adapter of feed name
AdapterLine(name) == <<"Fetching", name>>
\* line 108
FailLine(name, msg) == <<"Job Failed", name, msg>>
\* the line an adapter prints for a request that failed (energy, line 97)
ErrorLine(name) == <<"Connection Error", name>>

\* messages of the errors an adapter raises
Messages == {"timeout"}

\* cfg.get(name, {}).get('enabled'), as a truth value
Enabled(c, name) ==
    /\ name \in DOMAIN c
    /\ "enabled" \in DOMAIN c[name]
    /\ c[name].enabled = TRUE

\* mutant of Gate: the flag is not consulted
GateIgnoresEnabled(force, c, name) == TRUE

\* mutant of Gate: force is not consulted
GateIgnoresForce(force, c, name) == Enabled(c, name)

\* line 80: force or cfg.get(name, {}).get('enabled')
Gate(force, c, name) == force \/ Enabled(c, name)

\* mutant of StatusOnError: line 107 is missing
StatusUnchangedOnError == "Success"

\* lines 106-107: the status of a run whose adapter raised
StatusOnError == "Failed"

VARIABLES
    configFile,       \* config.json
    logFile,          \* logs.json
    sys_stdout,       \* sys.stdout
    sys_stderr,       \* sys.stderr
    clock,            \* datetime.now(), in ticks
    pc,               \* per thread: the statement of run_job it is at
    call,             \* per thread: run_job's arguments [name, force]
    cfg,              \* per thread: run_job's local cfg
    capture_buffer,   \* per thread: the StringIO of its run
    status,           \* per thread: run_job's local status
    original_stdout,  \* per thread: run_job's local
    original_stderr,  \* per thread: run_job's local
    logs,             \* per thread: log_run's local logs
    hist,             \* per thread, history only: what the run did
    jobs,             \* the scheduler's job store
    planner,          \* per caller of reschedule_all: its place and locals
    plan_hist,        \* per caller, history only: what its call replaced
    skipped,          \* history only: ids found due while still running
    log_hist,         \* history only: per feed, the entries appended, in order
    planning,         \* two plans of one configuration, for comparison
    request,          \* per /trigger request: its place in trigger_job
    page              \* what the last request for the index page was given

vars == <<configFile, logFile, sys_stdout, sys_stderr, clock, pc, call, cfg,
          capture_buffer, status, original_stdout, original_stderr, logs, hist,
          jobs, planner, plan_hist, skipped, log_hist, planning, request, page>>

schedVars == <<jobs, planner, plan_hist, skipped>>
auxVars == <<log_hist, planning, request, page>>

NoData == [k \in {} |-> <<>>]
NoJob == [id |-> <<"", <<>>>>, name |-> "", period |-> 0, first |-> 0, by |-> 0]
NoCall == [name |-> "", force |-> FALSE, job |-> NoJob, after |-> {}, failed |-> {}]

\* the callers of reschedule_all: 0 is the start-up timer (line 172), the
\* others are update_settings requests
Planners == 0..MaxSaves
NoPlanner == [pc |-> "idle", cfg |-> NoData, i |-> 1, j |-> 1]
NoPlanHist == [prev |-> {}, done |-> FALSE]
NoPlanning == [cfg |-> NoData, now1 |-> 0, now2 |-> 0, plan1 |-> {}, plan2 |-> {},
               done1 |-> FALSE, done2 |-> FALSE, raised1 |-> FALSE, raised2 |-> FALSE]
\* nothing has been shown yet
NoPage == [shown |-> FALSE, error |-> FALSE, config |-> NoData, logs |-> NoData]

\* the /trigger requests; thread 0 stands for no thread started
Requests == 1..MaxRequests
NoRequest == [pc |-> "idle", job_name |-> "", thread |-> 0, running |-> FALSE]

NoHist == [emitted |-> <<>>, adapter_runs |-> 0, adapter_cfg |-> NoData,
           appended |-> <<>>, raised |-> FALSE, before_raise |-> <<>>,
           message |-> "", output |-> <<>>, enabled_read |-> FALSE,
           ended_after |-> {}, net_error |-> FALSE, rotated_during |-> {}]

\* the stored configurations a run may find
StoredCfg ==
    [energy  |-> [enabled |-> TRUE, mode |-> "times"],
     weather |-> [mode |-> "interval"]]

RunConfigFiles ==
    { [state |-> "missing", data |-> NoData],
      [state |-> "corrupt", data |-> NoData],
      [state |-> "ok", data |-> StoredCfg] }

\* mutant of ConfigRead: the configuration is read once, when the program
\* starts, and kept
ConfigReadOnce(file) == load_config([state |-> "ok", data |-> StoredCfg])

\* line 78: cfg = load_config(), at every call of run_job
ConfigRead(file) == load_config(file)

OldEntry == [legacy |-> FALSE, time |-> 0, status |-> "Success", output |-> <<>>]

RunLogFiles ==
    { [state |-> "ok", data |-> [energy |-> <<OldEntry>>, weather |-> <<LegacyEntry(0)>>]] }

\* nothing has run yet: the streams are the terminal's, the store is empty
IdleInit ==
    /\ sys_stdout = Terminal
    /\ sys_stderr = Terminal
    /\ clock = 0
    /\ pc = [t \in Threads |-> "idle"]
    /\ call = [t \in Threads |-> NoCall]
    /\ cfg = [t \in Threads |-> NoData]
    /\ capture_buffer = [t \in Threads |-> <<>>]
    /\ status = [t \in Threads |-> ""]
    /\ original_stdout = [t \in Threads |-> Terminal]
    /\ original_stderr = [t \in Threads |-> Terminal]
    /\ logs = [t \in Threads |-> NoData]
    /\ hist = [t \in Threads |-> NoHist]
    /\ jobs = {}
    /\ planner = [p \in Planners |-> NoPlanner]
    /\ plan_hist = [p \in Planners |-> NoPlanHist]
    /\ skipped = {}
    /\ log_hist = [f \in Feeds |-> <<>>]
    /\ request = [r \in Requests |-> NoRequest]
    /\ page = NoPage

RunInit ==
    /\ IdleInit
    /\ configFile \in RunConfigFiles
    /\ logFile \in RunLogFiles
    /\ planning = NoPlanning

fileVars == <<configFile, logFile>>
streamVars == <<sys_stdout, sys_stderr>>
localVars == <<cfg, status, original_stdout, original_stderr, logs>>

\* print(text) by thread t: written to whatever sys.stdout is now
print(t, text) ==
    /\ capture_buffer' = TeeWrite(capture_buffer, sys_stdout, text)
    /\ hist' = [hist EXCEPT ![t].emitted = Append(@, text)]

\* the thread objects are taken in order
FreeThread(t) == pc[t] = "idle" /\ \A u \in Threads : u < t => pc[u] # "idle"

\* trigger_job (lines 216-224): a known feed gets a thread running
\* run_job(job_name, controller, True); an unknown name starts nothing
trigger_job(t, job_name) ==
    /\ FreeThread(t)
    /\ job_name \in Feeds
    /\ pc' = [pc EXCEPT ![t] = "L78"]
    /\ call' = [call EXCEPT ![t] = [name |-> job_name, force |-> TRUE,
                                     job |-> NoJob, after |-> {}, failed |-> {}]]
    /\ UNCHANGED <<schedVars, auxVars, fileVars, streamVars, clock, localVars, capture_buffer, hist>>

\* a scheduler worker calls run_job(name, controller, False) (args of lines 143, 162)
scheduled_job(t, name) ==
    /\ FreeThread(t)
    /\ pc' = [pc EXCEPT ![t] = "L78"]
    /\ call' = [call EXCEPT ![t] = [name |-> name, force |-> FALSE,
                                     job |-> NoJob, after |-> {}, failed |-> {}]]
    /\ UNCHANGED <<schedVars, auxVars, fileVars, streamVars, clock, localVars, capture_buffer, hist>>

\* lines 78-85 and 117-119: cfg = load_config() (an error of load_config
\* leaves run_job), the gate, then the locals of a run
run_job_L78(t) ==
    /\ pc[t] = "L78"
    /\ IF load_config_raises(configFile)
       THEN /\ pc' = [pc EXCEPT ![t] = "raised"]
            /\ hist' = [hist EXCEPT ![t].raised = TRUE]
            /\ UNCHANGED <<cfg, status>>
       ELSE /\ hist' = [hist EXCEPT ![t].enabled_read =
                           Enabled(ConfigRead(configFile), call[t].name)]
            /\ IF Gate(call[t].force, ConfigRead(configFile), call[t].name)
               THEN /\ pc' = [pc EXCEPT ![t] = "L95"]
                    /\ cfg' = [cfg EXCEPT ![t] = ConfigRead(configFile)]
                    /\ status' = [status EXCEPT ![t] = "Success"]
               ELSE /\ pc' = [pc EXCEPT ![t] = "done"]
                    /\ UNCHANGED <<cfg, status>>
    /\ UNCHANGED <<schedVars, auxVars, fileVars, streamVars, clock, call, capture_buffer,
                   original_stdout, original_stderr, logs>>

\* lines 95-96
run_job_L95(t) ==
    /\ pc[t] = "L95"
    /\ original_stdout' = [original_stdout EXCEPT ![t] = sys_stdout]
    /\ original_stderr' = [original_stderr EXCEPT ![t] = sys_stderr]
    /\ pc' = [pc EXCEPT ![t] = "L100"]
    /\ UNCHANGED <<schedVars, auxVars, fileVars, streamVars, clock, call, cfg, capture_buffer, status,
                   logs, hist>>

\* lines 100-101
run_job_L100(t) ==
    /\ pc[t] = "L100"
    /\ sys_stdout' = Tee(sys_stdout, t)
    /\ sys_stderr' = Tee(sys_stderr, t)
    /\ pc' = [pc EXCEPT ![t] = "L103"]
    /\ UNCHANGED <<schedVars, auxVars, fileVars, clock, call, localVars, capture_buffer, hist>>

\* lines 103-105: the header is printed and func.run(cfg) entered
run_job_L103(t) ==
    /\ pc[t] = "L103"
    /\ capture_buffer' = TeeWrite(capture_buffer, sys_stdout,
                                  HeaderLine(call[t].force, call[t].name))
    /\ hist' = [hist EXCEPT ![t].emitted = Append(@, HeaderLine(call[t].force, call[t].name)),
                            ![t].adapter_runs = @ + 1,
                            ![t].adapter_cfg = cfg[t]]
    /\ pc' = [pc EXCEPT ![t] = "run"]
    /\ UNCHANGED <<schedVars, auxVars, fileVars, streamVars, clock, call, localVars>>

\* controllers' run(full_config): a print of the adapter
adapter_print(t) ==
    /\ pc[t] = "run"
    /\ Len(hist[t].emitted) < 1 + MaxPrints
    /\ print(t, AdapterLine(call[t].name))
    /\ UNCHANGED <<schedVars, auxVars, fileVars, streamVars, clock, pc, call, localVars>>

\* controllers' run(full_config) returns: on to the finally clause
adapter_return(t) ==
    /\ pc[t] = "run"
    /\ pc' = [pc EXCEPT ![t] = "L112"]
    /\ UNCHANGED <<schedVars, auxVars, fileVars, streamVars, clock, call, localVars, capture_buffer, hist>>

\* controllers' run(full_config): a request fails (no connection, a status
\* that is not 200, a reply that does not parse); the adapter's own except
\* prints the error and run returns (energy, lines 75-98, after the
\* progress line of line 59)
adapter_error(t) ==
    /\ pc[t] = "run"
    /\ Len(hist[t].emitted) = 1 + MaxPrints
    /\ capture_buffer' = TeeWrite(capture_buffer, sys_stdout, ErrorLine(call[t].name))
    /\ hist' = [hist EXCEPT ![t].emitted = Append(@, ErrorLine(call[t].name)),
                            ![t].net_error = TRUE]
    /\ pc' = [pc EXCEPT ![t] = "L112"]
    /\ UNCHANGED <<schedVars, auxVars, fileVars, streamVars, clock, call, localVars>>

\* controllers' run(full_config) raises; lines 106-108 catch it
adapter_raise(t, msg) ==
    /\ pc[t] = "run"
    /\ status' = [status EXCEPT ![t] = StatusOnError]
    /\ capture_buffer' = TeeWrite(capture_buffer, sys_stdout, FailLine(call[t].name, msg))
    /\ hist' = [hist EXCEPT ![t].emitted = Append(@, FailLine(call[t].name, msg)),
                            ![t].raised = TRUE,
                            ![t].before_raise = hist[t].emitted,
                            ![t].message = msg]
    /\ pc' = [pc EXCEPT ![t] = "L112"]
    /\ UNCHANGED <<schedVars, auxVars, fileVars, streamVars, clock, call, cfg, original_stdout,
                   original_stderr, logs>>

\* lines 112-113
run_job_L112(t) ==
    /\ pc[t] = "L112"
    /\ sys_stdout' = original_stdout[t]
    /\ sys_stderr' = original_stderr[t]
    /\ pc' = [pc EXCEPT ![t] = "L115"]
    /\ UNCHANGED <<schedVars, auxVars, fileVars, clock, call, localVars, capture_buffer, hist>>

\* line 115 into line 60: capture_buffer.getvalue(), then logs = load_logs()
log_run_L60(t) ==
    /\ pc[t] = "L115"
    /\ hist' = [hist EXCEPT ![t].output = capture_buffer[t]]
    /\ logs' = [logs EXCEPT ![t] = load_logs(logFile)]
    /\ pc' = [pc EXCEPT ![t] = "L61"]
    /\ UNCHANGED <<schedVars, auxVars, fileVars, streamVars, clock, call, cfg, capture_buffer, status,
                   original_stdout, original_stderr>>

\* lines 61-74: the entry, stamped with the time it is now, is put in front
\* and the whole document written; log_run and run_job return
log_run_L74(t) ==
    /\ pc[t] = "L61"
    /\ \E now \in clock..MaxClock :
          LET entry == NewEntry(now, status[t], hist[t].output)
          IN /\ clock' = now
             /\ logFile' = [state |-> "ok",
                            data |-> LogUpdate(logs[t], call[t].name, entry)]
             /\ hist' = [hist EXCEPT ![t].appended =
                            Append(@, [feed |-> call[t].name,
                                       head |-> Head(logFile'.data[call[t].name])])]
    /\ pc' = [pc EXCEPT ![t] = "done"]
    /\ cfg' = [cfg EXCEPT ![t] = NoData]
    /\ logs' = [logs EXCEPT ![t] = NoData]
    /\ status' = [status EXCEPT ![t] = ""]
    /\ original_stdout' = [original_stdout EXCEPT ![t] = Terminal]
    /\ original_stderr' = [original_stderr EXCEPT ![t] = Terminal]
    /\ UNCHANGED <<schedVars, auxVars, configFile, streamVars, call, capture_buffer>>

run_job(t) ==
    \/ run_job_L78(t) \/ run_job_L95(t) \/ run_job_L100(t) \/ run_job_L103(t)
    \/ adapter_print(t) \/ adapter_return(t) \/ adapter_error(t)
    \/ (\E msg \in Messages : adapter_raise(t, msg))
    \/ run_job_L112(t) \/ log_run_L60(t) \/ log_run_L74(t)

\* the feeds of the runs that are started
RunFeeds == {"energy", "weather"}

RunNext ==
    \/ \E t \in Threads : \E n \in RunFeeds : trigger_job(t, n)
    \/ \E t \in Threads : \E n \in RunFeeds : scheduled_job(t, n)
    \/ \E t \in Threads : run_job(t)

SpecRun == RunInit /\ [][RunNext]_vars

(***************************************************************************)
(* Claims about run_job, checked under SpecRun.                            *)
(***************************************************************************)
Started(t) == pc[t] # "idle"
Returned(t) == pc[t] = "done"

\* s occurs in t as a subsequence (in order, other lines may come between)
RECURSIVE Contains(_, _)
Contains(t, s) ==
    IF s = <<>> THEN TRUE
    ELSE IF t = <<>> THEN FALSE
    ELSE IF Head(t) = Head(s) THEN Contains(Tail(t), Tail(s))
    ELSE Contains(Tail(t), s)

\* C1: a run_job call without force that read the feed's enabled flag as
\* false never entered the adapter and never wrote the run log.
C1_DisabledScheduledIsNoOp ==
    \A t \in Threads :
        (Started(t) /\ pc[t] # "L78" /\ ~call[t].force /\ ~hist[t].enabled_read
            /\ ~hist[t].raised)
        => /\ pc[t] = "done"
           /\ hist[t].adapter_runs = 0
           /\ hist[t].appended = <<>>

C1_Witness ==
    \E t \in Threads :
        /\ Returned(t) /\ ~call[t].force /\ ~hist[t].enabled_read
        /\ \E u \in Threads : u # t /\ hist[u].appended # <<>>

\* C2: a run_job call with force=True that read its configuration enters the
\* adapter exactly once, whether the feed's flag is true, false or absent.
C2_ForcedRunsAdapterOnce ==
    \A t \in Threads :
        /\ hist[t].adapter_runs <= 1
        /\ (call[t].force /\ pc[t] \in {"run", "L112", "L115", "L61", "done"})
           => hist[t].adapter_runs = 1
        /\ (call[t].force /\ Started(t))
           => pc[t] \in {"L78", "raised", "L95", "L100", "L103", "run", "L112",
                         "L115", "L61", "done"} /\ (pc[t] = "done" => hist[t].adapter_runs = 1)

C2_Witness ==
    \E t, u \in Threads :
        /\ Returned(t) /\ call[t].force /\ ~hist[t].enabled_read
        /\ configFile.state = "ok" /\ call[t].name \in DOMAIN configFile.data
        /\ "enabled" \notin DOMAIN configFile.data[call[t].name]
        /\ hist[t].adapter_runs = 1
        /\ Returned(u) /\ call[u].force /\ hist[u].enabled_read
        /\ hist[u].adapter_runs = 1

\* C3 (as claimed): when the adapter raised, the logged status is Failed, the
\* logged output holds what the adapter printed before raising followed by
\* the error's message, and run_job returned without an error.
C3_FailureIsCapturedAsClaimed ==
    \A t \in Threads :
        (hist[t].message # "")
        => /\ pc[t] # "raised"
           /\ Returned(t) =>
                /\ Len(hist[t].appended) = 1
                /\ hist[t].appended[1].head.status = "Failed"
                /\ Contains(hist[t].appended[1].head.output,
                            Tail(hist[t].before_raise)
                               \o <<FailLine(call[t].name, hist[t].message)>>)

\* C4: a run_job call that passed the gate returns after exactly one
\* log_run write, which puts at the head of its feed's sequence an entry
\* with the call's captured output and with status Success if the adapter
\* returned, Failed if it raised.
C4_OneAppendPerRun ==
    \A t \in Threads :
        /\ Len(hist[t].appended) <= 1
        /\ (Returned(t) /\ (call[t].force \/ hist[t].enabled_read))
           => /\ Len(hist[t].appended) = 1
              /\ hist[t].appended[1].feed = call[t].name
              /\ hist[t].appended[1].head.output = hist[t].output
              /\ ~hist[t].appended[1].head.legacy
              /\ hist[t].appended[1].head.status =
                    (IF hist[t].message # "" THEN "Failed" ELSE "Success")

C4_Witness ==
    \E t, u \in Threads :
        /\ Returned(t) /\ hist[t].message # ""
        /\ hist[t].appended[1].head.status = "Failed"
        /\ Returned(u) /\ ~call[u].force /\ hist[u].message = ""
        /\ Len(hist[u].appended) = 1
        /\ hist[u].appended[1].head.status = "Success"

\* C6 (as claimed): when two runs of one feed have both finished log_run,
\* the stored sequence of the feed holds the entries of both.
C6_NoLostUpdateAsClaimed ==
    \A t, u \in Threads :
        (t # u /\ Returned(t) /\ Returned(u)
            /\ hist[t].appended # <<>> /\ hist[u].appended # <<>>
            /\ call[t].name = call[u].name
            /\ \A w \in Threads : pc[w] \in {"idle", "done", "raised"})
        => \E i, j \in 1..Len(logFile.data[call[t].name]) :
              /\ i # j
              /\ logFile.data[call[t].name][i] = hist[t].appended[1].head
              /\ logFile.data[call[t].name][j] = hist[u].appended[1].head

\* C7 (as claimed): the output logged for a run is exactly what that run
\* printed, in order.
C7_CaptureIsPerRunAsClaimed ==
    \A t \in Threads :
        hist[t].appended # <<>> => hist[t].appended[1].head.output = hist[t].emitted

\* C17 (as claimed): a run in which a request of the adapter failed is
\* logged with status Failed.
C17_AdapterErrorIsFailedAsClaimed ==
    \A t \in Threads :
        (hist[t].net_error /\ Returned(t))
        => /\ Len(hist[t].appended) = 1
           /\ hist[t].appended[1].head.status = "Failed"

(***************************************************************************)
(* The scheduler (lines 122-172, 179-214): the job store, the callers of   *)
(* reschedule_all and the dispatcher.  The scheduler's own operations      *)
(* (add_job, remove_all_jobs, the dispatch of a due job) are atomic: each  *)
(* runs under the scheduler's job store lock.  A job in the store can      *)
(* come due at any time.  In this part a worker makes its run_job call in  *)
(* one step, with no other run beside it on sys.stdout.                    *)
(***************************************************************************)
runVars == <<sys_stdout, sys_stderr, cfg, capture_buffer, status,
             original_stdout, original_stderr, logs>>

\* the planning instant: the clock counts on from 09:00 of day 0
Now(c) == 9 * 60 + c

\* settings forms a request can post (lines 184-210), per section
FormTimes ==
    [dota    |-> [enabled |-> FALSE, mode |-> "interval", interval |-> 15,
                  days |-> 1, times |-> <<T0800>>],
     weather |-> [enabled |-> FALSE, mode |-> "interval", interval |-> 30,
                  days |-> 1, times |-> <<>>],
     fitness |-> [enabled |-> FALSE, mode |-> "interval", interval |-> 60,
                  days |-> 1, times |-> <<T2200>>, refresh_token |-> "r0"],
     energy  |-> [enabled |-> TRUE, mode |-> "times", interval |-> 60,
                  days |-> 1, times |-> <<T0800, T2200>>],
     system  |-> [gateway_ip |-> "10.0.0.2", store_code |-> "S1"]]

FormInterval ==
    [FormTimes EXCEPT !.energy = [enabled |-> FALSE, mode |-> "interval",
                                  interval |-> 30, days |-> 1, times |-> <<T0800>>],
                      !.weather.enabled = TRUE]

Forms == {FormTimes, FormInterval}

\* lines 184-210: the posted fields overwrite those of the loaded configuration
ApplyForm(config, form) ==
    [k \in DOMAIN config |->
        IF k \in DOMAIN form THEN FillSection(config[k], form[k]) ELSE config[k]]

\* a BackgroundScheduler() job has max_instances 1: a due job whose id still
\* has a run in progress is not submitted
Running(id) == \E t \in Threads : pc[t] = "L78" /\ call[t].job.id = id

\* mutant of CanSubmit: any number of instances of a job may run
CanSubmitAlways(id) == TRUE

\* mutant of CanSubmit: a job one of whose runs ended by an error is held back
CanSubmitUnlessFailed(id) ==
    /\ ~Running(id)
    /\ ~\E t \in Threads : call[t].job.id = id /\ hist[t].raised

CanSubmit(id) == ~Running(id)

SchedInit ==
    /\ IdleInit
    /\ configFile = [state |-> "ok", data |-> StoredCfg]
    /\ logFile \in RunLogFiles
    /\ planning = NoPlanning

\* line 172: the timer calls reschedule_all
timer_fires ==
    /\ planner[0].pc = "idle"
    /\ planner' = [planner EXCEPT ![0].pc = "L123"]
    /\ UNCHANGED <<auxVars, fileVars, clock, pc, call, hist, runVars, jobs, plan_hist, skipped>>

\* lines 181-210: a request loads the configuration and applies its form
update_settings_L181(p, form) ==
    /\ p # 0
    /\ planner[p].pc = "idle"
    /\ \A q \in Planners : (0 < q /\ q < p) => planner[q].pc # "idle"
    /\ IF load_config_raises(configFile)
       THEN planner' = [planner EXCEPT ![p].pc = "raised"]
       ELSE planner' = [planner EXCEPT ![p].pc = "L212",
                                       ![p].cfg = ApplyForm(load_config(configFile), form)]
    /\ UNCHANGED <<auxVars, fileVars, clock, pc, call, hist, runVars, jobs, plan_hist, skipped>>

\* line 212, save_config: open(CONFIG_FILE, 'w') empties the file
save_config_open(p) ==
    /\ planner[p].pc = "L212"
    /\ configFile' = [state |-> "partial", data |-> NoData]
    /\ planner' = [planner EXCEPT ![p].pc = "L42"]
    /\ UNCHANGED <<auxVars, logFile, clock, pc, call, hist, runVars, jobs, plan_hist, skipped>>

\* line 42: json.dump and close; then line 213 calls reschedule_all
save_config_dump(p) ==
    /\ planner[p].pc = "L42"
    /\ configFile' = [state |-> "ok", data |-> planner[p].cfg]
    /\ planner' = [planner EXCEPT ![p].pc = "L123", ![p].cfg = NoData]
    /\ UNCHANGED <<auxVars, logFile, clock, pc, call, hist, runVars, jobs, plan_hist, skipped>>

\* line 123: cfg = load_config()
reschedule_all_L123(p) ==
    /\ planner[p].pc = "L123"
    /\ IF load_config_raises(configFile)
       THEN planner' = [planner EXCEPT ![p].pc = "raised"]
       ELSE planner' = [planner EXCEPT ![p].pc = "L124",
                                       ![p].cfg = load_config(configFile)]
    /\ UNCHANGED <<auxVars, fileVars, clock, pc, call, hist, runVars, jobs, plan_hist, skipped>>

\* lines 124-133: scheduler.remove_all_jobs()
reschedule_all_L124(p) ==
    /\ planner[p].pc = "L124"
    /\ jobs' = RemoveAllJobs(jobs)
    /\ plan_hist' = [plan_hist EXCEPT ![p].prev = jobs]
    /\ planner' = [planner EXCEPT ![p].pc = "L135", ![p].i = 1, ![p].j = 1]
    /\ UNCHANGED <<auxVars, fileVars, clock, pc, call, hist, runVars, skipped>>

\* after the feed at FeedOrder[i]: the next feed, or the end of the call
NextFeed(p, i) ==
    IF i < Len(FeedOrder)
    THEN [planner[p] EXCEPT !.i = i + 1, !.j = 1]
    ELSE [planner[p] EXCEPT !.pc = "done", !.cfg = NoData, !.i = 1, !.j = 1]

Finishes(p) == planner'[p].pc = "done"

\* lines 139-145: the feed is in interval mode; add_job raises on an id
\* the store holds, and nothing in reschedule_all catches that
reschedule_all_interval(p) ==
    /\ planner[p].pc = "L135"
    /\ LET name == FeedOrder[planner[p].i]
           settings == planner[p].cfg[name]
       IN /\ IsIntervalMode(settings)
          /\ LET job == IntervalJob(name, settings, Now(clock), p)
             IN IF Conflicts(jobs, job)
                THEN /\ planner' = [planner EXCEPT ![p].pc = "raised"]
                     /\ UNCHANGED jobs
                ELSE /\ jobs' = jobs \cup {job}
                     /\ planner' = [planner EXCEPT ![p] = NextFeed(p, planner[p].i)]
    /\ plan_hist' = [plan_hist EXCEPT ![p].done = Finishes(p)]
    /\ UNCHANGED <<auxVars, fileVars, clock, pc, call, hist, runVars, skipped>>

\* lines 148-167: the feed is in fixed-times mode; one time string a step
reschedule_all_times(p) ==
    /\ planner[p].pc = "L135"
    /\ LET name == FeedOrder[planner[p].i]
           settings == planner[p].cfg[name]
           j == planner[p].j
       IN /\ ~IsIntervalMode(settings)
          /\ IF j <= Len(settings.times)
             THEN /\ jobs' = AddTimeJob(jobs, name, settings, settings.times[j],
                                        Now(clock), p)
                  /\ planner' = [planner EXCEPT ![p] =
                                    IF j < Len(settings.times)
                                    THEN [planner[p] EXCEPT !.j = j + 1]
                                    ELSE NextFeed(p, planner[p].i)]
             ELSE /\ planner' = [planner EXCEPT ![p] = NextFeed(p, planner[p].i)]
                  /\ UNCHANGED jobs
    /\ plan_hist' = [plan_hist EXCEPT ![p].done = Finishes(p)]
    /\ UNCHANGED <<auxVars, fileVars, clock, pc, call, hist, runVars, skipped>>

\* the dispatcher finds job due and submits run_job(name, controller, False)
\* to a worker
fire(t, job) ==
    /\ FreeThread(t)
    /\ job \in jobs
    /\ CanSubmit(job.id)
    /\ pc' = [pc EXCEPT ![t] = "L78"]
    /\ call' = [call EXCEPT ![t] =
                  [name |-> job.name, force |-> FALSE, job |-> job,
                   after |-> {p \in Planners : plan_hist[p].done},
                   failed |-> {u \in Threads : hist[u].raised}]]
    /\ UNCHANGED <<auxVars, fileVars, clock, hist, runVars, schedVars>>

\* the dispatcher finds job due while a run of its id is in progress
skip_fire(job) ==
    /\ job \in jobs
    /\ ~CanSubmit(job.id)
    /\ job.id \notin skipped
    /\ skipped' = skipped \cup {job.id}
    /\ UNCHANGED <<auxVars, fileVars, clock, pc, call, hist, runVars, jobs, planner, plan_hist>>

\* what a run prints: the header, n lines of the adapter, the failure line
RunOutput(force, name, n, msg) ==
    <<HeaderLine(force, name)>> \o [k \in 1..n |-> AdapterLine(name)]
        \o (IF msg = "" THEN <<>> ELSE <<FailLine(name, msg)>>)

\* the refresh token the token service hands out in place of the stored one
NewToken == "r1"

\* update_config_token (strava, lines 99-105): the stored document, as it
\* is in the file, is written back with the new token; an error of it (no
\* fitness section, a file that does not parse) is caught at line 95
update_config_token(file, new_token) ==
    IF file.state = "ok" /\ "fitness" \in DOMAIN file.data
    THEN [state |-> "ok",
          data |-> [file.data EXCEPT !.fitness =
                       [k \in DOMAIN @ \cup {"refresh_token"} |->
                           IF k = "refresh_token" THEN new_token ELSE @[k]]]]
    ELSE file

\* strava, lines 88-91: the run of fitness finds its token rotated
Rotates(c, name, msg) ==
    /\ name = "fitness" /\ msg = ""
    /\ "refresh_token" \in DOMAIN c[name]
    /\ c[name].refresh_token # NewToken

\* the update_settings requests that have loaded the configuration (line
\* 181) and not yet written it (line 212)
Saving == {p \in Planners : planner[p].pc \in {"L212", "L42"}}

\* run_job (lines 77-119) and log_run (lines 59-74) by a worker, as one
\* step: the adapter prints n lines and returns (msg = "") or raises msg,
\* and the adapter of fitness may find its token rotated (rotate);
\* the log entry is stamped with the time it is by then
run_job_call(t, n, msg, rotate) ==
    /\ pc[t] = "L78"
    /\ sys_stdout = Terminal
    /\ IF load_config_raises(configFile)
       THEN /\ pc' = [pc EXCEPT ![t] = "raised"]
            /\ hist' = [hist EXCEPT ![t].raised = TRUE]
            /\ ~rotate
            /\ UNCHANGED <<configFile, logFile, clock>>
       ELSE LET c == ConfigRead(configFile)
                name == call[t].name
                out == RunOutput(call[t].force, name, n, msg)
            IN IF Gate(call[t].force, c, name)
               THEN \E now \in clock..MaxClock :
                       /\ clock' = now
                       /\ rotate => Rotates(c, name, msg)
                       /\ configFile' = IF rotate
                                        THEN update_config_token(configFile, NewToken)
                                        ELSE configFile
                       /\ logFile' = [state |-> "ok",
                                      data |-> LogUpdate(load_logs(logFile), name,
                                                  NewEntry(now,
                                                     IF msg = "" THEN "Success" ELSE StatusOnError,
                                                     out))]
                       /\ hist' = [hist EXCEPT
                                     ![t].enabled_read = Enabled(c, name),
                                     ![t].emitted = out,
                                     ![t].output = out,
                                     ![t].adapter_runs = @ + 1,
                                     ![t].adapter_cfg = c,
                                     ![t].raised = (msg # ""),
                                     ![t].message = msg,
                                     ![t].ended_after = {p \in Planners : plan_hist[p].done},
                                     ![t].rotated_during =
                                         IF rotate THEN Saving ELSE {},
                                     ![t].appended = Append(@,
                                         [feed |-> name, head |-> Head(logFile'.data[name])])]
                       /\ pc' = [pc EXCEPT ![t] = "done"]
               ELSE /\ pc' = [pc EXCEPT ![t] = "done"]
                    /\ hist' = [hist EXCEPT ![t].enabled_read = Enabled(c, name)]
                    /\ ~rotate
                    /\ UNCHANGED <<configFile, logFile, clock>>
    /\ UNCHANGED <<auxVars, call, runVars, schedVars>>

SchedNext ==
    \/ timer_fires
    \/ \E p \in Planners : \E form \in Forms : update_settings_L181(p, form)
    \/ \E p \in Planners : save_config_open(p)
    \/ \E p \in Planners : save_config_dump(p)
    \/ \E p \in Planners : reschedule_all_L123(p)
    \/ \E p \in Planners : reschedule_all_L124(p)
    \/ \E p \in Planners : reschedule_all_interval(p)
    \/ \E p \in Planners : reschedule_all_times(p)
    \/ \E t \in Threads : \E job \in jobs : fire(t, job)
    \/ \E job \in jobs : skip_fire(job)
    \/ \E t \in Threads : \E msg \in Messages \cup {""} :
          run_job_call(t, MaxPrints, msg, FALSE)

SpecSched == SchedInit /\ [][SchedNext]_vars

(***************************************************************************)
(* Claims about overlapping runs, checked under SpecRun.                   *)
(***************************************************************************)
\* no call of run_job is between its first and its last statement
NoRunInProgress == \A t \in Threads : pc[t] \in {"idle", "done", "raised"}

\* C26, as claimed: whenever no call of run_job is in progress, sys.stdout
\* and sys.stderr are the streams the program started with.
C26_StreamsAreRestoredAsClaimed ==
    NoRunInProgress => sys_stdout = Terminal /\ sys_stderr = Terminal

\* C29, as claimed: once two runs of different feeds have both logged and
\* returned, the entry of each is in the stored sequence of its feed.
C29_OtherFeedsAreKeptAsClaimed ==
    \A t, u \in Threads :
        (Returned(t) /\ Returned(u) /\ NoRunInProgress
            /\ hist[t].appended # <<>> /\ hist[u].appended # <<>>
            /\ call[t].name # call[u].name)
        => \E i \in 1..Len(logFile.data[call[t].name]) :
              logFile.data[call[t].name][i] = hist[t].appended[1].head

(***************************************************************************)
(* Claims about the scheduler, checked under SpecSched.                    *)
(***************************************************************************)
Scheduled(t) == call[t].job # NoJob

\* C8: a job that a reschedule_all call removed is never dispatched after
\* that call has completed, and a run dispatched before the call completed
\* is left alone: it stays in progress until it has returned, with its log
\* entry written when the feed is enabled.
C8_ReplaceIsAtomic ==
    \A t \in Threads : Scheduled(t) =>
        /\ \A p \in call[t].after : call[t].job \notin plan_hist[p].prev
        /\ \A p \in Planners :
              (plan_hist[p].done /\ p \notin call[t].after
                  /\ call[t].job \in plan_hist[p].prev)
              => /\ pc[t] \in {"L78", "done", "raised"}
                 /\ (pc[t] = "done" /\ hist[t].enabled_read)
                       => Len(hist[t].appended) = 1

C8_Witness ==
    \E t, u \in Threads : \E p \in Planners :
        /\ Scheduled(t) /\ Scheduled(u) /\ plan_hist[p].done
        /\ call[t].job \in plan_hist[p].prev
        /\ p \notin call[t].after /\ p \in hist[t].ended_after
        /\ pc[t] = "done" /\ Len(hist[t].appended) = 1
        /\ p \in call[u].after /\ plan_hist[p].prev # {}
        /\ call[u].job.id \in {j.id : j \in plan_hist[p].prev}

\* C9: no two runs dispatched for the same job id are in progress at once.
C9_NoOverlapOfOneTrigger ==
    \A t, u \in Threads :
        (t # u /\ Scheduled(t) /\ Scheduled(u) /\ pc[t] = "L78" /\ pc[u] = "L78")
        => call[t].job.id # call[u].job.id

C9_Witness ==
    \E t, u \in Threads :
        /\ Scheduled(t) /\ Scheduled(u) /\ t # u
        /\ call[t].job.id = call[u].job.id
        /\ call[t].job.id \in skipped
        /\ pc[t] = "done" /\ pc[u] = "L78"

(***************************************************************************)
(* The run log on its own: log_run calls made one after another.           *)
(***************************************************************************)
LogInitFiles ==
    { [state |-> "missing", data |-> NoData],
      [state |-> "corrupt", data |-> NoData],
      [state |-> "ok",
       data |-> [energy |-> <<OldEntry, LegacyEntry(0)>>, weather |-> <<LegacyEntry(0)>>]] }

LogInit ==
    /\ IdleInit
    /\ configFile = [state |-> "missing", data |-> NoData]
    /\ logFile \in LogInitFiles
    /\ planning = NoPlanning

\* the feeds and the results of the runs that are logged
LogFeeds == {"energy", "weather"}
Statuses == {"Success", "Failed"}

Appends == Len(log_hist["energy"]) + Len(log_hist["weather"])

\* log_run(job_name, status, output), lines 59-74, with no other call beside it
log_run(job_name, st, output) ==
    /\ Appends < MaxAppends
    /\ logFile' = [state |-> "ok",
                   data |-> LogUpdate(load_logs(logFile), job_name,
                                      NewEntry(clock, st, output))]
    /\ log_hist' = [log_hist EXCEPT ![job_name] = Append(@, NewEntry(clock, st, output))]
    /\ UNCHANGED <<configFile, streamVars, clock, pc, call, localVars, capture_buffer,
                   hist, schedVars, planning, request, page>>

LogNext ==
    \E job_name \in LogFeeds : \E st \in Statuses :
        log_run(job_name, st, <<AdapterLine(job_name)>>)

SpecLog == LogInit /\ [][LogNext]_vars

\* the last n elements of seq, last one first
NewestFirst(seq, n) == [i \in 1..n |-> seq[Len(seq) + 1 - i]]

Min(a, b) == IF a <= b THEN a ELSE b

\* read_all(): what load_logs returns for the stored log
read_all == load_logs(logFile)

\* C5: every stored sequence holds at most 10 entries and starts with the
\* entries appended to it, the newest first; a feed that got 10 or more
\* appends reads back as exactly its 10 most recent ones, newest first.
C5_LastTenNewestFirst ==
    /\ \A f \in DOMAIN read_all : Len(read_all[f]) <= 10
    /\ \A f \in LogFeeds :
          Len(log_hist[f]) > 0 =>
             /\ f \in DOMAIN read_all
             /\ LET n == Min(Len(log_hist[f]), 10)
                IN /\ Len(read_all[f]) >= n
                   /\ SubSeq(read_all[f], 1, n) = NewestFirst(log_hist[f], n)
                   /\ Len(log_hist[f]) >= 10 => Len(read_all[f]) = 10

C5_Witness ==
    \E f \in LogFeeds :
        /\ Len(log_hist[f]) = 11
        /\ log_hist[f][1] # log_hist[f][11]
        /\ read_all[f] = NewestFirst(log_hist[f], 10)

(***************************************************************************)
(* Planning on its own: one configuration planned at two instants.         *)
(***************************************************************************)
T2599 == <<"2", "5", ":", "9", "9">>
TNoColon == <<"n", "o", "o", "n">>
T080000 == <<"0", "8", ":", "0", "0", ":", "0", "0">>

PlanStored ==
    { StoredCfg,
      FormTimes,
      [energy  |-> [mode |-> "times", times |-> <<T2599, T2200, T2200>>, days |-> 2],
       fitness |-> [mode |-> "times", times |-> <<T0800, T2200>>, enabled |-> TRUE]],
      [dota    |-> [mode |-> "times", times |-> <<TNoColon, T0800, T2599>>],
       weather |-> [mode |-> "times", times |-> <<T080000, T1000>>, enabled |-> TRUE]] }

PlanConfigs == {load_config([state |-> "ok", data |-> d]) : d \in PlanStored}

PlanInstants == {7 * 60, 9 * 60, 23 * 60, MinutesPerDay + 9 * 60}

PlanInit ==
    /\ IdleInit
    /\ configFile = [state |-> "missing", data |-> NoData]
    /\ logFile = [state |-> "missing", data |-> NoData]
    /\ \E c \in PlanConfigs : \E n1, n2 \in PlanInstants :
          planning = [NoPlanning EXCEPT !.cfg = c, !.now1 = n1, !.now2 = n2]

\* reschedule_all runs alone on an empty store, at the instant now1
plan_first ==
    /\ ~planning.done1
    /\ planning' = [planning EXCEPT !.plan1 = plan(planning.cfg, planning.now1),
                                    !.raised1 = PlanRaises(planning.cfg),
                                    !.done1 = TRUE]
    /\ UNCHANGED <<fileVars, streamVars, clock, pc, call, localVars, capture_buffer,
                   hist, schedVars, log_hist, request, page>>

\* and again, on an empty store, at the instant now2
plan_second ==
    /\ ~planning.done2
    /\ planning' = [planning EXCEPT !.plan2 = plan(planning.cfg, planning.now2),
                                    !.raised2 = PlanRaises(planning.cfg),
                                    !.done2 = TRUE]
    /\ UNCHANGED <<fileVars, streamVars, clock, pc, call, localVars, capture_buffer,
                   hist, schedVars, log_hist, request, page>>

PlanNext == plan_first \/ plan_second

SpecPlan == PlanInit /\ [][PlanNext]_vars

\* the identifiers and periods of a set of jobs
IdsAndPeriods(store) == {<<j.id, j.period>> : j \in store}

\* C10 (as claimed): two plans of one configuration are the same set of
\* jobs, with the same ids, periods and anchors.
C10_PlanIsPureAsClaimed ==
    (planning.done1 /\ planning.done2) => planning.plan1 = planning.plan2

\* C10 (amended): two plans of one configuration hold the same ids with the
\* same periods, whatever the two planning instants.
C10_PlanIdsAndPeriodsArePure ==
    (planning.done1 /\ planning.done2)
    => IdsAndPeriods(planning.plan1) = IdsAndPeriods(planning.plan2)

C10_Witness ==
    /\ planning.done1 /\ planning.done2
    /\ planning.now1 # planning.now2
    /\ planning.plan1 # planning.plan2
    /\ \E j \in planning.plan1 : j.id[2] # IntervalSuffix
    /\ IdsAndPeriods(planning.plan1) = IdsAndPeriods(planning.plan2)

(***************************************************************************)
(* Claims about the plan of one configuration, checked under SpecPlan.     *)
(***************************************************************************)
\* the feeds of a configuration that are planned by their times of day
TimesFeeds(c) == {f \in Feeds : ~IsIntervalMode(c[f])}

\* the jobs of a store that carry the identifier id
JobsWithId(store, id) == {j \in store : j.id = id}

\* the minute of the day an "HH:MM" string names
MinuteOfDay(t_str) ==
    LET parts == Split(t_str, <<>>)
    IN IntOf(parts[1], 0) * 60 + IntOf(parts[2], 0)

\* C11: for a feed planned by its times of day, every well-formed time of
\* its list has exactly one job, with the id (feed, time), which first runs
\* at that time of day, after the planning instant and at most a day after
\* it, and whose period is the feed's days.
C11_FixedTimeJobs ==
    planning.done1 =>
        \A f \in TimesFeeds(planning.cfg) :
            \A i \in 1..Len(planning.cfg[f].times) :
                LET t_str == planning.cfg[f].times[i]
                    with_id == JobsWithId(planning.plan1, JobId(f, t_str))
                IN WellFormed(t_str) =>
                      /\ Cardinality(with_id) = 1
                      /\ \A j \in with_id :
                            /\ j.name = f
                            /\ j.first % MinutesPerDay = MinuteOfDay(t_str)
                            /\ j.first > planning.now1
                            /\ j.first <= planning.now1 + MinutesPerDay
                            /\ j.period = planning.cfg[f].days * MinutesPerDay

\* planned at 09:00: 08:00 first runs the next day, 22:00 the same day
C11_Witness ==
    /\ planning.done1
    /\ planning.now1 = 9 * 60
    /\ "fitness" \in TimesFeeds(planning.cfg)
    /\ planning.cfg["fitness"].times = <<T0800, T2200>>
    /\ \E j \in planning.plan1 :
          /\ j.id = JobId("fitness", T0800)
          /\ j.first = MinutesPerDay + 8 * 60
          /\ j.period = MinutesPerDay
    /\ \E j \in planning.plan1 :
          /\ j.id = JobId("fitness", T2200)
          /\ j.first = 22 * 60
          /\ j.period = MinutesPerDay

\* the jobs of a store that run the feed f
JobsOfFeed(store, f) == {j \in store : j.name = f}

\* C12: a feed in interval mode has exactly one job, with the id
\* (feed, interval), whose period is the feed's interval in minutes counted
\* from the planning instant; none of its times of day is planned.
C12_IntervalJob ==
    planning.done1 =>
        \A f \in Feeds \ TimesFeeds(planning.cfg) :
            /\ Cardinality(JobsOfFeed(planning.plan1, f)) = 1
            /\ \A j \in JobsOfFeed(planning.plan1, f) :
                  /\ j.id = JobId(f, IntervalSuffix)
                  /\ j.period = planning.cfg[f].interval
                  /\ j.first = planning.now1 + planning.cfg[f].interval

C12_Witness ==
    /\ planning.done1
    /\ "weather" \notin TimesFeeds(planning.cfg)
    /\ planning.cfg["weather"].interval = 30
    /\ planning.cfg["weather"].times = <<T1000, T1400>>
    /\ JobsOfFeed(planning.plan1, "weather")
          = {[id |-> JobId("weather", IntervalSuffix), name |-> "weather",
              period |-> 30, first |-> planning.now1 + 30, by |-> 0]}
    /\ TimesFeeds(planning.cfg) # {}

\* the malformed time strings of the configurations planned here
Malformed == {T2599, TNoColon, T080000}

\* the times of a list that are not malformed, in their order
RECURSIVE WithoutMalformed(_)
WithoutMalformed(times) ==
    IF times = <<>> THEN <<>>
    ELSE IF Head(times) \in Malformed THEN WithoutMalformed(Tail(times))
    ELSE <<Head(times)>> \o WithoutMalformed(Tail(times))

\* the configuration with the malformed times taken out of every list
Cleaned(c) ==
    [k \in DOMAIN c |->
        IF k \in Feeds THEN [c[k] EXCEPT !.times = WithoutMalformed(@)] ELSE c[k]]

\* C13: reschedule_all ends without an error; a malformed time of a feed
\* planned by its times of day has no job, every other time of the feed has
\* one, and the whole plan is the plan of the configuration without the
\* malformed times, so that no other job of any feed is missing.
C13_MalformedTimeIsSkipped ==
    planning.done1 =>
        /\ ~planning.raised1
        /\ \A f \in TimesFeeds(planning.cfg) :
              \A i \in 1..Len(planning.cfg[f].times) :
                 LET t_str == planning.cfg[f].times[i]
                 IN (t_str \in Malformed)
                       <=> (JobsWithId(planning.plan1, JobId(f, t_str)) = {})
        /\ planning.plan1 = plan(Cleaned(planning.cfg), planning.now1)

C13_Witness ==
    /\ planning.done1 /\ ~planning.raised1
    /\ planning.cfg["dota"].times = <<TNoColon, T0800, T2599>>
    /\ "dota" \in TimesFeeds(planning.cfg)
    /\ {j.id : j \in JobsOfFeed(planning.plan1, "dota")} = {JobId("dota", T0800)}
    /\ {j.id : j \in JobsOfFeed(planning.plan1, "weather")} = {JobId("weather", T1000)}
    /\ JobsOfFeed(planning.plan1, "energy") # {}

\* the configuration with the enabled flag true for the feeds of S only
WithEnabled(c, S) ==
    [k \in DOMAIN c |->
        IF k \in Feeds THEN [c[k] EXCEPT !.enabled = (k \in S)] ELSE c[k]]

\* C14: the plan of a configuration is the plan of every configuration
\* that differs from it in enabled flags only, and a feed whose flag is
\* false has its jobs in the plan like any other feed.
C14_PlanIgnoresEnabled ==
    planning.done1 =>
        /\ \A S \in SUBSET Feeds :
              plan(WithEnabled(planning.cfg, S), planning.now1) = planning.plan1
        /\ \A f \in Feeds :
              (~planning.cfg[f].enabled /\ f \notin TimesFeeds(planning.cfg))
              => JobsWithId(planning.plan1, JobId(f, IntervalSuffix)) # {}

C14_Witness ==
    /\ planning.done1
    /\ \E f, g \in Feeds :
          /\ planning.cfg[f].enabled /\ ~planning.cfg[g].enabled
          /\ JobsOfFeed(planning.plan1, f) # {}
          /\ g \in TimesFeeds(planning.cfg)
          /\ JobsOfFeed(planning.plan1, g) # {}
    /\ \E h \in Feeds \ TimesFeeds(planning.cfg) :
          ~planning.cfg[h].enabled /\ JobsOfFeed(planning.plan1, h) # {}

(***************************************************************************)
(* Claims about the runs the scheduler makes while the configuration is    *)
(* saved and planned again, checked under SpecSched.                       *)
(***************************************************************************)
\* the feed's enabled flag as config.json holds it now (false by default)
StoredEnabled(name) ==
    /\ configFile.state = "ok"
    /\ name \in DOMAIN configFile.data
    /\ "enabled" \in DOMAIN configFile.data[name]
    /\ configFile.data[name].enabled = TRUE

\* C15: a run the scheduler dispatched follows the enabled flag that
\* config.json holds when run_job is called, whatever the flag was when the
\* job was planned: with the flag true the adapter runs once and one entry
\* is put at the head of the feed's log, with the flag false nothing runs
\* and the log is left as it is.
C15_RunFollowsStoredFlag ==
    [][\A t \in Threads :
          (Scheduled(t) /\ pc[t] = "L78" /\ pc'[t] = "done")
          => IF StoredEnabled(call[t].name)
             THEN /\ hist'[t].adapter_runs = 1
                  /\ Len(hist'[t].appended) = 1
                  /\ logFile'.data[call[t].name][1] = hist'[t].appended[1].head
             ELSE /\ hist'[t].adapter_runs = 0
                  /\ logFile' = logFile]_vars

\* the flags of weather and energy were changed by a save, and jobs planned
\* before it ran before reschedule_all replaced them
C15_Witness ==
    \E t, u \in Threads :
        /\ planner[1].pc = "L123" /\ ~plan_hist[1].done
        /\ configFile = [state |-> "ok", data |-> ApplyForm(load_config(
                             [state |-> "ok", data |-> StoredCfg]), FormInterval)]
        /\ Scheduled(t) /\ call[t].job.by = 0 /\ call[t].name = "weather"
        /\ pc[t] = "done" /\ hist[t].adapter_runs = 1 /\ Len(hist[t].appended) = 1
        /\ Scheduled(u) /\ call[u].job.by = 0 /\ call[u].name = "energy"
        /\ pc[u] = "done" /\ hist[u].adapter_runs = 0 /\ hist[u].appended = <<>>

\* no run dispatched for the job id is in progress
NoInstance(id) == \A u \in Threads : ~(pc[u] = "L78" /\ call[u].job.id = id)

TriggerNames == {"weather", "energy", "bogus"}

TriggerInit ==
    /\ IdleInit
    /\ configFile = [state |-> "ok", data |-> StoredCfg]
    /\ logFile = [state |-> "missing", data |-> NoData]
    /\ planning = NoPlanning

\* lines 218-222: for a name of jobs, threading.Thread(target=run_job,
\* args=(job_name, jobs[job_name], True)).start()
trigger_job_L221(r, job_name) ==
    /\ request[r].pc = "idle"
    /\ \A q \in Requests : q < r => request[q].pc # "idle"
    /\ IF job_name \in Feeds
       THEN \E t \in Threads :
               /\ FreeThread(t)
               /\ pc' = [pc EXCEPT ![t] = "L78"]
               /\ call' = [call EXCEPT ![t] = [name |-> job_name, force |-> TRUE,
                                                job |-> NoJob, after |-> {},
                                                failed |-> {}]]
               /\ request' = [request EXCEPT ![r] =
                                 [NoRequest EXCEPT !.pc = "L224", !.job_name = job_name,
                                                   !.thread = t]]
       ELSE /\ request' = [request EXCEPT ![r] =
                              [NoRequest EXCEPT !.pc = "L224", !.job_name = job_name]]
            /\ UNCHANGED <<pc, call>>
    /\ UNCHANGED <<schedVars, log_hist, planning, page, fileVars, streamVars, clock,
                   localVars, capture_buffer, hist>>

\* the run the request started is still in progress
InProgress(r) ==
    /\ request[r].thread # 0
    /\ pc[request[r].thread] \notin {"done", "raised"}

\* mutant of MayReturn: the handler joins the thread it started
ReturnsAfterJoin(r) == ~InProgress(r)

\* line 224 follows line 222 with nothing that waits for the thread
MayReturn(r) == TRUE

\* line 224: return redirect(url_for('index'))
trigger_job_L224(r) ==
    /\ request[r].pc = "L224"
    /\ MayReturn(r)
    /\ request' = [request EXCEPT ![r].pc = "returned", ![r].running = InProgress(r)]
    /\ UNCHANGED <<schedVars, log_hist, planning, page, fileVars, streamVars, clock, pc, call,
                   localVars, capture_buffer, hist>>

TriggerNext ==
    \/ \E r \in Requests : \E job_name \in TriggerNames : trigger_job_L221(r, job_name)
    \/ \E r \in Requests : trigger_job_L224(r)
    \/ \E t \in Threads : \E msg \in Messages \cup {""} :
          run_job_call(t, MaxPrints, msg, FALSE)

SpecTrigger == TriggerInit /\ [][TriggerNext]_vars

\* the requests that are past line 222
Served == {r \in Requests : request[r].pc # "idle"}

\* C20: a request for a feed started one thread of its own, which runs
\* run_job for that feed with force=True, and can return whatever that run
\* is doing; a request for a name that is no feed started no thread, and
\* no run and no log entry exists but those of the requests for feeds.
C20_TriggerStartsForcedRun ==
    /\ \A r \in Served :
          IF request[r].job_name \in Feeds
          THEN /\ request[r].thread \in Threads
               /\ Started(request[r].thread)
               /\ call[request[r].thread].force
               /\ call[request[r].thread].name = request[r].job_name
               /\ \A q \in Served : q # r => request[q].thread # request[r].thread
          ELSE request[r].thread = 0
    /\ \A r \in Requests : request[r].pc = "L224" => ENABLED trigger_job_L224(r)
    /\ \A t \in Threads :
          Started(t) => \E r \in Served : request[r].thread = t
    /\ \A f \in DOMAIN load_logs(logFile) :
          load_logs(logFile)[f] # <<>>
          => \E t \in Threads : hist[t].appended # <<>> /\ call[t].name = f

C20_Witness ==
    \E r, q \in Requests :
        /\ request[r].pc = "returned" /\ request[r].running
        /\ pc[request[r].thread] = "done"
        /\ hist[request[r].thread].adapter_runs = 1
        /\ ~hist[request[r].thread].enabled_read
        /\ Len(hist[request[r].thread].appended) = 1
        /\ request[q].pc = "returned" /\ request[q].job_name = "bogus"
        /\ request[q].thread = 0
        /\ \A t \in Threads : t # request[r].thread => ~Started(t)

\* the configurations load_config returns for a config.json some save has
\* completed: the one of start-up and those of one or two requests after it
SavedConfigs ==
    LET c0 == load_config([state |-> "ok", data |-> StoredCfg])
        c1 == {ApplyForm(c0, f) : f \in Forms}
        c2 == UNION {{ApplyForm(c, f) : f \in Forms} : c \in c1}
    IN {c0} \cup c1 \cup c2

\* C18 (as claimed): every run the scheduler dispatched gets its
\* configuration, with no error, from a config.json that a save has
\* completed, and its adapter is given that configuration.
C18_SnapshotIsConsistentAsClaimed ==
    \A t \in Threads :
        Scheduled(t) =>
            /\ pc[t] # "raised"
            /\ hist[t].adapter_runs = 1 => hist[t].adapter_cfg \in SavedConfigs

\* C27, as claimed: no reschedule_all call ends by an error of add_job,
\* and once the timer's call and the calls of the saves have all returned
\* the store holds the jobs of the plan of the stored configuration.
C27_InterleavedReplansAgreeAsClaimed ==
    /\ \A p \in Planners : planner[p].pc = "raised" => planner[p].cfg = NoData
    /\ ((\A p \in Planners : planner[p].pc = "done") /\ configFile.state = "ok")
          => IdsAndPeriods(jobs)
                = IdsAndPeriods(plan(load_config(configFile), Now(clock)))

(***************************************************************************)
(* The writers of config.json: update_settings, and the adapter of fitness *)
(* when the token service rotates its refresh token.  Adapters return      *)
(* without an error here.                                                  *)
(***************************************************************************)
\* a stored configuration with the fitness feed enabled and its token
TokenCfg ==
    [fitness |-> [enabled |-> TRUE, mode |-> "interval", refresh_token |-> "r0"],
     energy  |-> [enabled |-> TRUE, mode |-> "times"]]

TokenInit ==
    /\ IdleInit
    /\ configFile = [state |-> "ok", data |-> TokenCfg]
    /\ logFile = [state |-> "missing", data |-> NoData]
    /\ planning = NoPlanning

TokenNext ==
    \/ timer_fires
    \/ \E p \in Planners : update_settings_L181(p, FormTimes)
    \/ \E p \in Planners : save_config_open(p)
    \/ \E p \in Planners : save_config_dump(p)
    \/ \E p \in Planners : reschedule_all_L123(p)
    \/ \E p \in Planners : reschedule_all_L124(p)
    \/ \E p \in Planners : reschedule_all_interval(p)
    \/ \E p \in Planners : reschedule_all_times(p)
    \/ \E t \in Threads : \E job \in jobs : fire(t, job)
    \/ \E t \in Threads : \E rotate \in BOOLEAN : run_job_call(t, 0, "", rotate)

SpecToken == TokenInit /\ [][TokenNext]_vars

\* C19 (as claimed): whoever completes a write of config.json goes on to
\* reschedule_all.
C19_EverySaveReplansAsClaimed ==
    [][(configFile' # configFile /\ configFile'.state = "ok")
          => \E p \in Planners : planner[p].pc = "L42" /\ planner'[p].pc = "L123"]_vars

\* C28, as claimed: when the token was rotated while a settings save was
\* between its load and its write, then after that save has written, the
\* stored configuration holds the rotated token and the schedule fields
\* of the form.
C28_RotationSurvivesSaveAsClaimed ==
    \A t \in Threads : \A p \in hist[t].rotated_during :
        (planner[p].pc \notin {"L212", "L42"} /\ configFile.state = "ok")
        => /\ configFile.data["fitness"].refresh_token = NewToken
           /\ \A f \in Feeds : \A k \in {"enabled", "mode", "interval", "days", "times"} :
                 configFile.data[f][k] = FormTimes[f][k]

(***************************************************************************)
(* The index page (lines 175-177): load_config() and load_logs() on what   *)
(* is stored, with log_run calls made before and after.                    *)
(***************************************************************************)
\* a stored configuration with keys the defaults do not have
ExtraCfg ==
    [dota    |-> [interval |-> 5, steam_id |-> "s1"],
     weather |-> [enabled |-> TRUE, times |-> <<T2200>>, lat |-> "52.5"],
     plugin  |-> [level |-> "debug"]]

ReadConfigFiles ==
    { [state |-> "missing", data |-> NoData],
      [state |-> "corrupt", data |-> NoData],
      [state |-> "ok", data |-> StoredCfg],
      [state |-> "ok", data |-> TokenCfg],
      [state |-> "ok", data |-> ExtraCfg] }

ReadInit ==
    /\ IdleInit
    /\ configFile \in ReadConfigFiles
    /\ logFile \in LogInitFiles
    /\ planning = NoPlanning

\* line 177: render_template('index.html', config=load_config(),
\* logs=load_logs()); an error of load_config ends the request
index ==
    /\ IF load_config_raises(configFile)
       THEN page' = [NoPage EXCEPT !.shown = TRUE, !.error = TRUE]
       ELSE page' = [shown |-> TRUE, error |-> FALSE,
                     config |-> load_config(configFile), logs |-> load_logs(logFile)]
    /\ UNCHANGED <<fileVars, streamVars, clock, pc, call, localVars, capture_buffer,
                   hist, schedVars, log_hist, planning, request>>

ReadNext ==
    \/ index
    \/ \E job_name \in LogFeeds : \E st \in Statuses :
          Appends < MaxReadAppends /\ log_run(job_name, st, <<AdapterLine(job_name)>>)

SpecRead == ReadInit /\ [][ReadNext]_vars

\* the stored log with every bare string s as the record a read gives for
\* it, and every other entry as it is stored
Upgraded(data) ==
    [k \in DOMAIN data |->
        [i \in 1..Len(data[k]) |->
            IF data[k][i].legacy
            THEN [legacy |-> FALSE, time |-> data[k][i].time, status |-> "Legacy",
                  output |-> <<"No details available.">>]
            ELSE data[k][i]]]

\* C21: a request for the index page leaves logs.json as it is, and the log
\* it is given is the stored one with every bare string upgraded to its
\* Legacy record and every structured entry as stored.
C21_ReadUpgradesLegacy ==
    [][(page' # page)
          => /\ logFile' = logFile
             /\ (~page'.error /\ logFile.state = "ok")
                   => page'.logs = Upgraded(logFile.data)]_vars

C21_Witness ==
    /\ page.shown /\ ~page.error
    /\ logFile.state = "ok"
    /\ logFile.data["energy"] = <<OldEntry, LegacyEntry(0)>>
    /\ page.logs["energy"][1] = OldEntry
    /\ page.logs["energy"][2].status = "Legacy"
    /\ page.logs["energy"][2].time = 0
    /\ ~page.logs["energy"][2].legacy

\* the entries of the stored log
StoredEntries ==
    IF logFile.state = "ok"
    THEN UNION {{logFile.data[k][i] : i \in 1..Len(logFile.data[k])} : k \in DOMAIN logFile.data}
    ELSE {}

\* C22 (as claimed): no entry of the stored log has the status Legacy: what
\* was stored as a bare string is never stored as a Legacy record.
C22_LegacyIsNeverWrittenAsClaimed ==
    \A e \in StoredEntries : e.status # "Legacy"

\* the keys of section key in the document d (none when d lacks the section)
KeysOf(d, key) == IF key \in DOMAIN d THEN DOMAIN d[key] ELSE {}

\* C23: the configuration loaded from a stored document has the sections
\* of the defaults and of the document; each section has the fields of
\* both; a field the document holds has the stored value, any other field
\* its default.
C23_LoadFillsDefaults ==
    (page.shown /\ ~page.error /\ configFile.state = "ok") =>
        LET stored == configFile.data
            c == page.config
        IN /\ DOMAIN c = DOMAIN defaults \cup DOMAIN stored
           /\ \A key \in DOMAIN c :
                 /\ DOMAIN c[key] = KeysOf(defaults, key) \cup KeysOf(stored, key)
                 /\ \A k \in DOMAIN c[key] :
                       c[key][k] = IF k \in KeysOf(stored, key)
                                   THEN stored[key][k]
                                   ELSE defaults[key][k]

C23_Witness ==
    /\ page.shown /\ ~page.error
    /\ configFile = [state |-> "ok", data |-> ExtraCfg]
    /\ page.config["dota"].steam_id = "s1"
    /\ page.config["dota"].interval = 5
    /\ page.config["dota"].mode = "interval"
    /\ page.config["plugin"] = ExtraCfg["plugin"]
    /\ page.config["fitness"] = defaults["fitness"]
    /\ page.config["system"] = defaults["system"]

\* C24, as claimed: whatever state config.json is in, missing or not
\* parseable included, a call of run_job gets a configuration and does not
\* end by an error of load_config; with no stored document to read, the
\* adapter is handed the defaults.
C24_UnreadableConfigFallsBackAsClaimed ==
    \A t \in Threads :
        /\ pc[t] # "raised"
        /\ (configFile.state # "ok" /\ hist[t].adapter_runs > 0)
              => hist[t].adapter_cfg = defaults

(***************************************************************************)
(* Start-up (lines 170-172): the scheduler is started with an empty job    *)
(* store and the timer calls reschedule_all once; no settings are saved.   *)
(***************************************************************************)
\* what config.json may hold when the program starts
StartConfigFiles == RunConfigFiles \cup {[state |-> "ok", data |-> TokenCfg]}

StartInit ==
    /\ IdleInit
    /\ configFile \in StartConfigFiles
    /\ logFile = [state |-> "missing", data |-> NoData]
    /\ planning = NoPlanning

StartNext ==
    \/ timer_fires
    \/ reschedule_all_L123(0)
    \/ reschedule_all_L124(0)
    \/ reschedule_all_interval(0)
    \/ reschedule_all_times(0)
    \/ \E t \in Threads : \E job \in jobs : fire(t, job)
    \/ \E job \in jobs : skip_fire(job)
    \/ \E t \in Threads : \E msg \in Messages \cup {""} :
          run_job_call(t, MaxPrints, msg, FALSE)

SpecStart == StartInit /\ [][StartNext]_vars

\* the configuration load_config is to give for what is stored: the
\* defaults when there is no document to read
CurrentConfig ==
    IF configFile.state = "ok" THEN load_config(configFile) ELSE defaults

\* C25, as claimed: until the timer's reschedule_all has emptied the store
\* the store is empty and no job has been dispatched; that call does not
\* end by an error, and once it has returned the store holds the jobs of
\* the plan of the stored configuration.
C25_StartPlansStoredConfigAsClaimed ==
    /\ planner[0].pc \in {"idle", "L123", "L124"}
          => jobs = {} /\ \A t \in Threads : ~Scheduled(t)
    /\ planner[0].pc # "raised"
    /\ planner[0].pc = "done"
          => IdsAndPeriods(jobs) = IdsAndPeriods(plan(CurrentConfig, Now(clock)))

====
